---- MODULE Spec2Model ----
(***************************************************************************)
(* Filter-expression encoder of the Aerospike Rust client                  *)
(* (src/expressions/mod.rs): the FilterExpression node, its constructors   *)
(* and the two-mode (size probe / write) recursive packer                  *)
(* pack / pack_expression / pack_command / pack_value.                     *)
(*                                                                         *)
(* Option<T> is a sequence of length 0 (None) or 1 (Some(x)).              *)
(* A byte is a number in 0..255; a buffer is a sequence of bytes.          *)
(***************************************************************************)
EXTENDS Integers, Sequences, FiniteSets

\* ------------------------------------------------------------------ bounds

\* longest child list (exps) of the enumerated compound nodes
MaxChildren == 2
\* longest argument list of the enumerated CALL nodes
MaxArgs == 3
\* longest context path of the enumerated context arguments
MaxCtx == 2
\* the primitive encoder call that is made to fail ranges over 1..MaxFail
MaxFail == 12

\* ------------------------------------------------------------------ Option

None == <<>>
Some(x) == <<x>>
IsSome(o) == Len(o) = 1
IsNone(o) == Len(o) = 0

\* ------------------------------------------------------------------ Value

\* crate::Value: t is the variant, n the integer/boolean payload, b the
\* bytes of a string, blob or float, l the elements of a list (or the
\* key, value, key, value, ... entries of a map).
NilV == [t |-> "nil", n |-> 0, b |-> <<>>, l |-> <<>>]
IntV(k) == [t |-> "int", n |-> k, b |-> <<>>, l |-> <<>>]
BoolV(k) == [t |-> "bool", n |-> k, b |-> <<>>, l |-> <<>>]
StrV(bytes) == [t |-> "str", n |-> 0, b |-> bytes, l |-> <<>>]
BlobV(bytes) == [t |-> "blob", n |-> 0, b |-> bytes, l |-> <<>>]
FloatV(bytes8) == [t |-> "float", n |-> 0, b |-> bytes8, l |-> <<>>]
ListV(items) == [t |-> "list", n |-> 0, b |-> <<>>, l |-> items]
MapV(entries) == [t |-> "map", n |-> 0, b |-> <<>>, l |-> entries]

\* Value::to_string for the variants used as bin names and patterns:
\* a string is itself, a small non-negative integer its decimal digits.
Digit(d) == 48 + d
DecimalBytes(k) ==
  IF k < 10 THEN <<Digit(k)>>
  ELSE IF k < 100 THEN <<Digit(k \div 10), Digit(k % 10)>>
  ELSE <<Digit(k \div 100), Digit((k \div 10) % 10), Digit(k % 10)>>
to_string(v) ==
  CASE v.t = "str" -> v.b
    [] v.t = "int" -> DecimalBytes(v.n)

\* ------------------------------------------------------------------ msgpack

\* msgpack array header
ArrayBeginBytes(n) ==
  IF n < 16 THEN <<144 + n>>
  ELSE <<220, n \div 256, n % 256>>

\* msgpack integer
IntegerBytes(k) ==
  IF k >= 0 /\ k < 128 THEN <<k>>
  ELSE IF k >= 128 /\ k < 256 THEN <<204, k>>
  ELSE IF k >= 256 /\ k < 65536 THEN <<205, k \div 256, k % 256>>
  ELSE IF k < 0 /\ k >= -32 THEN <<256 + k>>
  ELSE <<208, 256 + k>>

\* msgpack string/byte-array header
ByteArrayBeginBytes(n) ==
  IF n < 32 THEN <<160 + n>>
  ELSE <<218, n \div 256, n % 256>>

\* raw string: header of the text's length, then the text, no type byte
RawStringBytes(text) == ByteArrayBeginBytes(Len(text)) \o text

RECURSIVE ValueBytes(_)
RECURSIVE ConcatValueBytes(_, _)
ConcatValueBytes(items, i) ==
  IF i > Len(items) THEN <<>>
  ELSE ValueBytes(items[i]) \o ConcatValueBytes(items, i + 1)

\* generic value grammar: strings and blobs carry a particle-type byte
\* (3 for strings, 4 for blobs) after a header of length + 1
ValueBytes(v) ==
  CASE v.t = "nil" -> <<192>>
    [] v.t = "bool" -> IF v.n = 1 THEN <<195>> ELSE <<194>>
    [] v.t = "int" -> IntegerBytes(v.n)
    [] v.t = "float" -> <<203>> \o v.b
    [] v.t = "str" -> ByteArrayBeginBytes(Len(v.b) + 1) \o <<3>> \o v.b
    [] v.t = "blob" -> ByteArrayBeginBytes(Len(v.b) + 1) \o <<4>> \o v.b
    [] v.t = "list" -> ArrayBeginBytes(Len(v.l)) \o ConcatValueBytes(v.l, 1)
    [] v.t = "map" -> <<128 + (Len(v.l) \div 2)>> \o ConcatValueBytes(v.l, 1)

\* ------------------------------------------------------------------ encoder state

\* The state threaded through one top-level pack call:
\*   mode    "probe" (buf is None) or "write" (buf is Some(buffer))
\*   failAt  the number of the primitive encoder call that returns Err
\*           (0: none does)
\*   status  "ok", "error" (an Err was returned and propagated by ?) or
\*           "panic" (unwrap of None)
\*   size    the local accumulator `size` of the function being run
\*   ret     the usize returned by the last call that returned Ok
\*   calls   the primitive encoder calls made so far, in order
\*   path    the dispatch branch taken by each pack call so far, in order
\*   out     the bytes appended to the buffer so far
\*   at      where in the tree the node being packed is: the steps from
\*           the node pack was called on, <<"exps", i>> for child i and
\*           <<"arguments", i>> for the expression of argument i
\*   writes  the assignments made to fields of the tree so far, in order,
\*           each with the place of the node and the name of the field
Start(mode, failAt) ==
  [mode |-> mode, failAt |-> failAt, status |-> "ok", size |-> 0, ret |-> 0,
   calls |-> <<>>, path |-> <<>>, out |-> <<>>, at |-> <<>>, writes |-> <<>>]

\* one primitive encoder call: fails if it is call number failAt, else
\* appends its bytes when there is a buffer and returns their number
Primitive(st, call, bytes) ==
  IF st.status # "ok" THEN st
  ELSE IF Len(st.calls) + 1 = st.failAt
    THEN [st EXCEPT !.status = "error", !.calls = Append(@, call)]
  ELSE [st EXCEPT !.calls = Append(@, call),
                  !.out = IF st.mode = "write" THEN @ \o bytes ELSE @,
                  !.ret = Len(bytes)]

ArrayCall(n) == [fn |-> "array", n |-> n, v |-> NilV]
IntegerCall(k) == [fn |-> "int", n |-> k, v |-> NilV]
RawStringCall(text) == [fn |-> "raw", n |-> 0, v |-> StrV(text)]
ValueCall(v) == [fn |-> "value", n |-> 0, v |-> v]

pack_array_begin(st, n) == Primitive(st, ArrayCall(n), ArrayBeginBytes(n))
pack_integer(st, k) == Primitive(st, IntegerCall(k), IntegerBytes(k))
pack_raw_string(st, text) == Primitive(st, RawStringCall(text), RawStringBytes(text))
pack_value(st, v) == Primitive(st, ValueCall(v), ValueBytes(v))

\* `size += <call>?`: the returned count is added to the local accumulator
Add(st) == IF st.status = "ok" THEN [st EXCEPT !.size = @ + st.ret] ELSE st

\* Option::unwrap of None
Panic(st) == IF st.status = "ok" THEN [st EXCEPT !.status = "panic"] ELSE st

\* entry of a function of the packer: `let mut size = 0;`
Enter(st) == [st EXCEPT !.size = 0]

\* `Ok(size)`: the caller st gets the callee's accumulator r.size as the
\* returned count and keeps its own accumulator
Return(st, r) ==
  IF r.status = "ok" THEN [r EXCEPT !.ret = r.size, !.size = st.size] ELSE r

\* ------------------------------------------------------------------ ExpOp, ExpType

ExpOps ==
  {"EQ", "NE", "GT", "GE", "LT", "LE", "Regex", "Geo", "And", "Or", "Not",
   "DigestModulo", "DeviceSize", "LastUpdate", "SinceUpdate", "VoidTime",
   "TTL", "SetName", "KeyExists", "IsTombstone", "Key", "Bin", "BinType",
   "Quoted", "Call"}

\* `cmd as i64`
ExpOp(op) ==
  CASE op = "EQ" -> 1 [] op = "NE" -> 2 [] op = "GT" -> 3 [] op = "GE" -> 4
    [] op = "LT" -> 5 [] op = "LE" -> 6 [] op = "Regex" -> 7 [] op = "Geo" -> 8
    [] op = "And" -> 16 [] op = "Or" -> 17 [] op = "Not" -> 18
    [] op = "DigestModulo" -> 64 [] op = "DeviceSize" -> 65
    [] op = "LastUpdate" -> 66 [] op = "SinceUpdate" -> 67
    [] op = "VoidTime" -> 68 [] op = "TTL" -> 69 [] op = "SetName" -> 70
    [] op = "KeyExists" -> 71 [] op = "IsTombstone" -> 72
    [] op = "Key" -> 80 [] op = "Bin" -> 81 [] op = "BinType" -> 82
    [] op = "Quoted" -> 126 [] op = "Call" -> 127

ExpTypes ==
  {"NIL", "BOOL", "INT", "STRING", "LIST", "MAP", "BLOB", "FLOAT", "GEO", "HLL"}

\* `exp_type as i64`
ExpType(ty) ==
  CASE ty = "NIL" -> 0 [] ty = "BOOL" -> 1 [] ty = "INT" -> 2
    [] ty = "STRING" -> 3 [] ty = "LIST" -> 4 [] ty = "MAP" -> 5
    [] ty = "BLOB" -> 6 [] ty = "FLOAT" -> 7 [] ty = "GEO" -> 8
    [] ty = "HLL" -> 9

\* ------------------------------------------------------------------ ExpressionArgument

\* enum ExpressionArgument: kind is the variant; val, exp (a one-element
\* sequence holding the node) and ctx are the payload of Value,
\* FilterExpression and Context, and empty for the other variants.
ArgValue(v) == [kind |-> "Value", val |-> v, exp |-> <<>>, ctx |-> <<>>]
ArgFilterExpression(e) ==
  [kind |-> "FilterExpression", val |-> NilV, exp |-> <<e>>, ctx |-> <<>>]
ArgContext(ctx) == [kind |-> "Context", val |-> NilV, exp |-> <<>>, ctx |-> ctx]

\* CdtContext: one descent step
CdtContext(id, value) == [id |-> id, value |-> value]

\* ------------------------------------------------------------------ FilterExpression

\* struct FilterExpression, built field by field
FilterExpression(cmd, val, bin, flags, module, exps, arguments) ==
  [cmd |-> cmd, val |-> val, bin |-> bin, flags |-> flags, module |-> module,
   exps |-> exps, arguments |-> arguments]

\* FilterExpression::new: arguments is always None
new(cmd, val, bin, flags, module, exps) ==
  FilterExpression(cmd, val, bin, flags, module, exps, None)

key(exp_type) == new(Some("Key"), Some(IntV(ExpType(exp_type))), None, None, None, None)
key_exists == new(Some("KeyExists"), None, None, None, None, None)
int_bin(name) == new(Some("Bin"), Some(StrV(name)), None, None, Some("INT"), None)
string_bin(name) == new(Some("Bin"), Some(StrV(name)), None, None, Some("STRING"), None)
list_bin(name) == new(Some("Bin"), Some(StrV(name)), None, None, Some("LIST"), None)
bin_type(name) == new(Some("BinType"), Some(StrV(name)), None, None, None, None)
set_name == new(Some("SetName"), None, None, None, None, None)
digest_modulo(modulo) == new(Some("DigestModulo"), Some(IntV(modulo)), None, None, None, None)
regex_compare(regex, flags, bin) ==
  new(Some("Regex"), Some(StrV(regex)), Some(bin), Some(flags), None, None)
geo_compare(left, right) == new(Some("Geo"), None, None, None, None, Some(<<left, right>>))

int_val(val) == new(None, Some(IntV(val)), None, None, None, None)
bool_val(val) == new(None, Some(BoolV(val)), None, None, None, None)
string_val(val) == new(None, Some(StrV(val)), None, None, None, None)
float_val(val) == new(None, Some(FloatV(val)), None, None, None, None)
blob_val(val) == new(None, Some(BlobV(val)), None, None, None, None)
\* list_val building a bare literal
list_val_Bare(val) == new(None, Some(ListV(val)), None, None, None, None)
list_val(val) == new(Some("Quoted"), Some(ListV(val)), None, None, None, None)
map_val(val) == new(None, Some(MapV(val)), None, None, None, None)
geo_val(val) == new(None, Some(StrV(val)), None, None, None, None)
nil == new(None, Some(NilV), None, None, None, None)

not(exp) == FilterExpression(Some("Not"), None, None, None, None, Some(<<exp>>), None)
and(exps) == FilterExpression(Some("And"), None, None, None, None, Some(exps), None)
or(exps) == FilterExpression(Some("Or"), None, None, None, None, Some(exps), None)
eq(left, right) == FilterExpression(Some("EQ"), None, None, None, None, Some(<<left, right>>), None)
ne(left, right) == FilterExpression(Some("NE"), None, None, None, None, Some(<<left, right>>), None)
gt(left, right) == FilterExpression(Some("GT"), None, None, None, None, Some(<<left, right>>), None)

\* ------------------------------------------------------------------ packer

RECURSIVE pack(_, _)
RECURSIVE pack_exps_loop(_, _, _)
RECURSIVE pack_call_context_loop(_, _, _)
RECURSIVE pack_call_count_loop(_, _, _)
RECURSIVE pack_call_write_loop(_, _, _)

\* `exp.pack(buf)` for an exp borrowed from the tree (`for exp in exps`,
\* `for arg in args`): the callee runs on the node of the tree at `step`
pack_borrowed(child, step, st) ==
  LET r == pack(child, [st EXCEPT !.at = Append(@, step)])
  IN [r EXCEPT !.at = st.at]

\* `self.bin.clone().unwrap().pack(buf)`: the callee runs on a copy, and
\* what it assigns there is dropped with the copy
pack_cloned(child, st) ==
  LET r == pack(child, st)
  IN [r EXCEPT !.writes = st.writes]

\* pack_exps_loop with the Err of a child dropped instead of propagated
pack_exps_loop_Swallow(exps, i, st) ==
  IF i > Len(exps) \/ st.status # "ok" THEN st
  ELSE LET r == pack_borrowed(exps[i], <<"exps", i>>, st)
       IN pack_exps_loop(exps, i + 1,
            IF r.status = "error" THEN [r EXCEPT !.status = "ok"] ELSE Add(r))

\* pack_expression, `for exp in exps { size += exp.pack(buf)?; }`
pack_exps_loop(exps, i, st) ==
  IF i > Len(exps) \/ st.status # "ok" THEN st
  ELSE pack_exps_loop(exps, i + 1,
         Add(pack_borrowed(exps[i], <<"exps", i>>, st)))

\* pack_expression with an array header of exps.len()
pack_expression_LenOnly(self, exps, st) ==
  LET s1 == Add(pack_array_begin(Enter(st), Len(exps)))
      s2 == IF IsNone(self.cmd) THEN Panic(s1)
            ELSE Add(pack_integer(s1, ExpOp(self.cmd[1])))
  IN Return(st, pack_exps_loop(exps, 1, s2))

\* pack_expression: array header of exps.len() + 1, self.cmd.unwrap(), the children
pack_expression(self, exps, st) ==
  LET s1 == Add(pack_array_begin(Enter(st), Len(exps) + 1))
      s2 == IF IsNone(self.cmd) THEN Panic(s1)
            ELSE Add(pack_integer(s1, ExpOp(self.cmd[1])))
  IN Return(st, pack_exps_loop(exps, 1, s2))

\* pack_command, ExpOp::Regex arm
pack_command_Regex(self, cmd, st) ==
  LET s1 == Add(pack_array_begin(st, 4))
      s2 == Add(pack_integer(s1, ExpOp(cmd)))
      s3 == IF IsNone(self.flags) THEN Panic(s2)
            ELSE Add(pack_integer(s2, self.flags[1]))
      s4 == IF IsNone(self.val) THEN Panic(s3)
            ELSE Add(pack_raw_string(s3, to_string(self.val[1])))
  IN IF IsNone(self.bin) THEN Panic(s4) ELSE Add(pack_cloned(self.bin[1], s4))

\* pack_command, ExpOp::Call arm, `for c in ctx { pack_integer; pack_value }`:
\* the returned counts are dropped
pack_call_context_loop(ctx, i, st) ==
  IF i > Len(ctx) \/ st.status # "ok" THEN st
  ELSE pack_call_context_loop(ctx, i + 1,
         pack_value(pack_integer(st, ctx[i].id), ctx[i].value))

\* pack_call_context packing the side-block only when there is a buffer
pack_call_context_WriteOnly(ctx, st) ==
  IF ctx # <<>> /\ st.mode = "write"
    THEN pack_call_context_loop(ctx, 1,
           pack_array_begin(pack_integer(pack_array_begin(st, 3), 255),
                            Len(ctx) * 2))
  ELSE st

\* pack_call_context without the is_empty test
pack_call_context_NoEmptyTest(ctx, st) ==
  pack_call_context_loop(ctx, 1,
    pack_array_begin(pack_integer(pack_array_begin(st, 3), 255), Len(ctx) * 2))

\* pack_call_context with the counts of the side-block headers added to size
pack_call_context_Counted(ctx, st) ==
  IF ctx # <<>>
    THEN pack_call_context_loop(ctx, 1,
           Add(pack_array_begin(Add(pack_integer(Add(pack_array_begin(st, 3)), 255)),
                                Len(ctx) * 2)))
  ELSE st

\* pack_call_context with a side-block array of 2 in place of 3
pack_call_context_ArrayTwo(ctx, st) ==
  IF ctx # <<>>
    THEN pack_call_context_loop(ctx, 1,
           pack_array_begin(pack_integer(pack_array_begin(st, 2), 255),
                            Len(ctx) * 2))
  ELSE st

\* pack_command, ExpOp::Call arm, the side-block of one Context argument:
\* nothing when the path is empty; the returned counts are dropped
pack_call_context(ctx, st) ==
  IF ctx # <<>>
    THEN pack_call_context_loop(ctx, 1,
           pack_array_begin(pack_integer(pack_array_begin(st, 3), 255),
                            Len(ctx) * 2))
  ELSE st

\* pack_call_count_loop counting the Context arguments in len as well
pack_call_count_loop_CountAll(args, i, acc) ==
  IF i > Len(args) \/ acc.st.status # "ok" THEN acc
  ELSE IF args[i].kind \in {"Value", "FilterExpression"}
    THEN pack_call_count_loop(args, i + 1, [acc EXCEPT !.len = @ + 1])
  ELSE pack_call_count_loop(args, i + 1,
         [acc EXCEPT !.len = @ + 1,
                     !.st = pack_call_context(args[i].ctx, acc.st)])

\* pack_call_count_loop walking the arguments from the last to the first
pack_call_count_loop_Reversed(args, i, acc) ==
  IF i > Len(args) \/ acc.st.status # "ok" THEN acc
  ELSE LET arg == args[Len(args) + 1 - i]
       IN IF arg.kind \in {"Value", "FilterExpression"}
            THEN pack_call_count_loop(args, i + 1, [acc EXCEPT !.len = @ + 1])
          ELSE pack_call_count_loop(args, i + 1,
                 [acc EXCEPT !.st = pack_call_context(arg.ctx, acc.st)])

\* pack_command, ExpOp::Call arm, first loop over the arguments: counts
\* the Value and FilterExpression arguments in len and packs the contexts
pack_call_count_loop(args, i, acc) ==
  IF i > Len(args) \/ acc.st.status # "ok" THEN acc
  ELSE IF args[i].kind \in {"Value", "FilterExpression"}
    THEN pack_call_count_loop(args, i + 1, [acc EXCEPT !.len = @ + 1])
  ELSE pack_call_count_loop(args, i + 1,
         [acc EXCEPT !.st = pack_call_context(args[i].ctx, acc.st)])

\* pack_command, ExpOp::Call arm, second loop over the arguments
pack_call_write_loop(args, i, st) ==
  IF i > Len(args) \/ st.status # "ok" THEN st
  ELSE IF args[i].kind = "Value"
    THEN pack_call_write_loop(args, i + 1, Add(pack_value(st, args[i].val)))
  ELSE IF args[i].kind = "FilterExpression"
    THEN pack_call_write_loop(args, i + 1,
           Add(pack_borrowed(args[i].exp[1], <<"arguments", i>>, st)))
  ELSE pack_call_write_loop(args, i + 1, st)

\* pack_command_Call with `self.arguments.take()` in place of
\* `&self.arguments`: the arguments are moved out of the node
pack_command_Call_TakeArguments(self, cmd, st) ==
  LET s1 == Add(pack_array_begin(st, 5))
      s2 == Add(pack_integer(s1, ExpOp(cmd)))
      s3 == IF IsNone(self.module) THEN Panic(s2)
            ELSE Add(pack_integer(s2, ExpType(self.module[1])))
      s4 == IF IsNone(self.flags) THEN Panic(s3)
            ELSE Add(pack_integer(s3, self.flags[1]))
      t4 == IF s4.status = "ok"
              THEN [s4 EXCEPT !.writes =
                      Append(@, [at |-> s4.at, field |-> "arguments",
                                 value |-> None])]
            ELSE s4
      s5 == IF IsSome(self.arguments)
              THEN LET args == self.arguments[1]
                       acc == pack_call_count_loop(args, 1, [st |-> t4, len |-> 0])
                   IN pack_call_write_loop(args, 1,
                        Add(pack_array_begin(acc.st, acc.len)))
            ELSE IF IsNone(self.val) THEN Panic(s4)
            ELSE Add(pack_value(s4, self.val[1]))
  IN IF IsNone(self.bin) THEN Panic(s5) ELSE Add(pack_cloned(self.bin[1], s5))

\* pack_command, ExpOp::Call arm; the arguments are borrowed
\* (`&self.arguments`), the literal and the bin are cloned
pack_command_Call(self, cmd, st) ==
  LET s1 == Add(pack_array_begin(st, 5))
      s2 == Add(pack_integer(s1, ExpOp(cmd)))
      s3 == IF IsNone(self.module) THEN Panic(s2)
            ELSE Add(pack_integer(s2, ExpType(self.module[1])))
      s4 == IF IsNone(self.flags) THEN Panic(s3)
            ELSE Add(pack_integer(s3, self.flags[1]))
      s5 == IF IsSome(self.arguments)
              THEN LET args == self.arguments[1]
                       acc == pack_call_count_loop(args, 1, [st |-> s4, len |-> 0])
                   IN pack_call_write_loop(args, 1,
                        Add(pack_array_begin(acc.st, acc.len)))
            ELSE IF IsNone(self.val) THEN Panic(s4)
            ELSE Add(pack_value(s4, self.val[1]))
  IN IF IsNone(self.bin) THEN Panic(s5) ELSE Add(pack_cloned(self.bin[1], s5))

\* pack_command_Bin with the name packed by pack_value
pack_command_Bin_ViaValue(self, cmd, st) ==
  LET s1 == Add(pack_array_begin(st, 3))
      s2 == Add(pack_integer(s1, ExpOp(cmd)))
      s3 == IF IsNone(self.module) THEN Panic(s2)
            ELSE Add(pack_integer(s2, ExpType(self.module[1])))
  IN IF IsNone(self.val) THEN Panic(s3)
     ELSE Add(pack_value(s3, self.val[1]))

\* pack_command, ExpOp::Bin arm
pack_command_Bin(self, cmd, st) ==
  LET s1 == Add(pack_array_begin(st, 3))
      s2 == Add(pack_integer(s1, ExpOp(cmd)))
      s3 == IF IsNone(self.module) THEN Panic(s2)
            ELSE Add(pack_integer(s2, ExpType(self.module[1])))
  IN IF IsNone(self.val) THEN Panic(s3)
     ELSE Add(pack_raw_string(s3, to_string(self.val[1])))

\* pack_command, ExpOp::BinType arm
pack_command_BinType(self, cmd, st) ==
  LET s1 == Add(pack_array_begin(st, 2))
      s2 == Add(pack_integer(s1, ExpOp(cmd)))
  IN IF IsNone(self.val) THEN Panic(s2)
     ELSE Add(pack_raw_string(s2, to_string(self.val[1])))

\* pack_command_Other with an array header of 2 whether or not there is a value
pack_command_Other_AlwaysTwo(self, cmd, st) ==
  IF IsSome(self.val)
    THEN Add(pack_value(Add(pack_integer(Add(pack_array_begin(st, 2)), ExpOp(cmd))),
                        self.val[1]))
  ELSE Add(pack_integer(Add(pack_array_begin(st, 2)), ExpOp(cmd)))

\* pack_command, `_` arm: all other operators
pack_command_Other(self, cmd, st) ==
  IF IsSome(self.val)
    THEN Add(pack_value(Add(pack_integer(Add(pack_array_begin(st, 2)), ExpOp(cmd))),
                        self.val[1]))
  ELSE Add(pack_integer(Add(pack_array_begin(st, 1)), ExpOp(cmd)))

\* FilterExpression::pack_command
pack_command(self, cmd, st) ==
  LET s0 == Enter(st)
  IN Return(st,
       CASE cmd = "Regex" -> pack_command_Regex(self, cmd, s0)
         [] cmd = "Call" -> pack_command_Call(self, cmd, s0)
         [] cmd = "Bin" -> pack_command_Bin(self, cmd, s0)
         [] cmd = "BinType" -> pack_command_BinType(self, cmd, s0)
         [] OTHER -> pack_command_Other(self, cmd, s0))

\* pack_value with unwrap_or(Value::Nil) in place of unwrap
pack_value_self_OrNil(self, st) ==
  IF IsNone(self.val) THEN pack_value(st, NilV) ELSE pack_value(st, self.val[1])

\* FilterExpression::pack_value: pack_value(buf, &self.val.clone().unwrap())
pack_value_self(self, st) ==
  IF IsNone(self.val) THEN Panic(st) ELSE pack_value(st, self.val[1])

\* Dispatch testing cmd before exps
Dispatch_CommandFirst(self) ==
  IF IsSome(self.cmd) THEN "command"
  ELSE IF IsSome(self.exps) THEN "expression"
  ELSE "value"

\* the branch FilterExpression::pack takes for self
Dispatch(self) ==
  IF IsSome(self.exps) THEN "expression"
  ELSE IF IsSome(self.cmd) THEN "command"
  ELSE "value"

\* the body of FilterExpression::pack: the count of the branch taken is
\* added to `size`
pack_body(self, st) ==
  LET d == Dispatch(self)
      s0 == [Enter(st) EXCEPT !.path = Append(@, d)]
  IN CASE d = "expression" -> Add(pack_expression(self, self.exps[1], s0))
       [] d = "command" -> Add(pack_command(self, self.cmd[1], s0))
       [] d = "value" -> Add(pack_value_self(self, s0))

\* FilterExpression::pack; nothing runs once an Err or a panic is under way
pack(self, st) ==
  IF st.status # "ok" THEN st ELSE Return(st, pack_body(self, st))

\* ------------------------------------------------------------------ the nodes encoded

\* all sequences over S of length at most n
SeqsUpTo(S, n) == UNION {[1..k -> S] : k \in 0..n}

OptOps == {None} \cup {Some(op) : op \in ExpOps}
NameA == <<97>>
NameB == <<98>>
ValList == ListV(<<IntV(1)>>)
OptVals == {None, Some(IntV(3)), Some(StrV(NameA)), Some(ValList)}

\* a node with every field absent
Empty == new(None, None, None, None, None, None)

\* nodes without a reference child or arguments: every operator (or
\* none) with every combination of the other fields present or absent
Leaves ==
  {n \in [cmd : OptOps, val : OptVals, bin : {None}, flags : {None, Some(2)},
          module : {None, Some("INT")}, exps : {None, Some(<<>>)},
          arguments : {None}] :
     ~(n.val = Some(ValList) /\ n.cmd \in {Some("Regex"), Some("Bin"), Some("BinType")})}

RegexNodes ==
  [cmd : {Some("Regex")}, val : {None, Some(StrV(NameA)), Some(IntV(3))},
   bin : {None, Some(string_bin(NameB))}, flags : {None, Some(2)},
   module : {None}, exps : {None}, arguments : {None}]

\* the context path of k steps: list index 1, map key 2, list index 3, ...
Step(i) == CdtContext(IF i % 2 = 1 THEN 16 ELSE 34, IntV(i))
CtxPath(k) == [i \in 1..k |-> Step(i)]

ArgPool ==
  {ArgValue(IntV(3)), ArgFilterExpression(string_val(NameA))}
    \cup {ArgContext(CtxPath(k)) : k \in 0..MaxCtx}
ArgLists == SeqsUpTo(ArgPool, MaxArgs)

\* CALL nodes with arguments: well formed, or with one required field absent
CallNodes ==
  [cmd : {Some("Call")}, val : {None}, bin : {Some(list_bin(NameB))},
   flags : {Some(0)}, module : {Some("INT")}, exps : {None},
   arguments : {Some(a) : a \in ArgLists}]
  \cup
  [cmd : {Some("Call")}, val : {None, Some(IntV(3))},
   bin : {None, Some(list_bin(NameB))}, flags : {None, Some(0)},
   module : {None, Some("INT")}, exps : {None},
   arguments : {None, Some(<<>>), Some(<<ArgContext(CtxPath(1)), ArgValue(IntV(3))>>)}]

ChildPool == {int_val(3), int_bin(NameA), Empty}
ChildLists == SeqsUpTo(ChildPool, MaxChildren)

\* nodes with children, with and without the fields of the other encodings
CompoundNodes ==
  [cmd : {None} \cup {Some(op) : op \in {"EQ", "Geo", "And", "Or", "Not", "Regex",
                                          "Bin", "Quoted", "Call"}},
   val : {None, Some(IntV(3))}, bin : {None, Some(int_bin(NameB))},
   flags : {None}, module : {None},
   exps : {Some(c) : c \in ChildLists},
   arguments : {None, Some(<<ArgContext(CtxPath(1))>>)}]

FloatOnePointFive == <<63, 248, 0, 0, 0, 0, 0, 0>>

\* the list "get by index" read of bin b at index 2 below the context ctx
CallGetByIndex(ctx) ==
  FilterExpression(Some("Call"), None, Some(list_bin(NameB)), Some(0), Some("INT"),
                   None, Some(<<ArgContext(ctx), ArgValue(IntV(2))>>))

Scenarios ==
  {eq(int_bin(NameA), int_val(11)),
   not(or(<<eq(int_bin(NameA), int_val(0)), eq(int_bin(NameA), int_val(10))>>)),
   and(<<gt(int_bin(NameA), int_val(5)), ne(bin_type(NameB), int_val(0))>>),
   geo_compare(int_bin(NameA), geo_val(NameB)),
   regex_compare(NameA, 2, string_bin(NameB)),
   CallGetByIndex(CtxPath(1)),
   digest_modulo(3), key_exists, set_name, key("INT"),
   int_val(200), bool_val(1), string_val(NameA), float_val(FloatOnePointFive),
   blob_val(<<1, 2, 3>>), geo_val(NameA), nil,
   list_val(<<IntV(1)>>), list_val(<<>>), list_val(<<IntV(1), StrV(NameA)>>),
   map_val(<<IntV(1), StrV(NameA)>>), map_val(<<>>)}

\* CALL nodes nested below other nodes: as a child, as an argument of
\* another CALL and as the reference child of another CALL
NestedBase == {n \in CallNodes : IsSome(n.arguments) /\ Len(n.arguments[1]) <= 1}
Nested ==
  UNION {{not(n),
          and(<<int_val(3), n>>),
          FilterExpression(Some("Call"), None, Some(list_bin(NameA)), Some(0),
                           Some("LIST"), None,
                           Some(<<ArgFilterExpression(n), ArgContext(CtxPath(1)),
                                  ArgValue(IntV(3))>>)),
          FilterExpression(Some("Call"), None, Some(n), Some(0), Some("LIST"), None,
                           Some(<<ArgContext(CtxPath(1))>>))} : n \in NestedBase}

Nodes == Leaves \cup RegexNodes \cup CallNodes \cup CompoundNodes \cup Scenarios \cup Nested

\* ------------------------------------------------------------------ state machine

VARIABLES
  node,    \* the expression tree being encoded
  failAt,  \* the primitive encoder call that fails (0: none)
  probe,   \* the outcome of pack(&mut None), status "none" before it ran
  write,   \* the outcome of pack(&mut Some(buf)), status "none" before it ran
  again    \* the outcome of the latest further pack call on the same tree,
           \* in either mode, status "none" before any

vars == <<node, failAt, probe, write, again>>

NotRun(mode) == [Start(mode, 0) EXCEPT !.status = "none"]

\* the number of primitive encoder calls of a failure-free write pass
CallCount(n) == Len(pack(n, Start("write", 0)).calls)

Min(a, b) == IF a < b THEN a ELSE b

Init ==
  /\ node \in Nodes
  /\ failAt \in 0..Min(MaxFail, CallCount(node))
  /\ probe = NotRun("probe")
  /\ write = NotRun("write")
  /\ again = NotRun("probe")

RECURSIVE AssignAt(_, _, _, _)
\* the tree n with `value` assigned to the field `field` of its node at `at`
AssignAt(n, at, field, value) ==
  IF at = <<>> THEN [n EXCEPT ![field] = value]
  ELSE IF Head(at)[1] = "exps"
    THEN [n EXCEPT !.exps[1][Head(at)[2]] = AssignAt(@, Tail(at), field, value)]
  ELSE [n EXCEPT !.arguments[1][Head(at)[2]].exp[1] =
          AssignAt(@, Tail(at), field, value)]

RECURSIVE TreeAfter(_, _, _)
\* the tree n once the assignments ws[i], ws[i+1], ... are made, in order
TreeAfter(n, ws, i) ==
  IF i > Len(ws) THEN n
  ELSE TreeAfter(AssignAt(n, ws[i].at, ws[i].field, ws[i].value), ws, i + 1)

\* node.pack(&mut None): the size probe; the tree is as the pass leaves it
SizeProbe ==
  /\ probe.status = "none"
  /\ probe' = pack(node, Start("probe", failAt))
  /\ node' = TreeAfter(node, probe'.writes, 1)
  /\ UNCHANGED <<failAt, write, again>>

\* node.pack(&mut Some(buf)): the write pass
WritePass ==
  /\ write.status = "none"
  /\ write' = pack(node, Start("write", failAt))
  /\ node' = TreeAfter(node, write'.writes, 1)
  /\ UNCHANGED <<failAt, probe, again>>

\* a further node.pack(&mut None), at any time and any number of times
ProbeAgain ==
  /\ again' = pack(node, Start("probe", failAt))
  /\ node' = TreeAfter(node, again'.writes, 1)
  /\ UNCHANGED <<failAt, probe, write>>

\* a further node.pack(&mut Some(buf)) into a buffer of its own, at any
\* time and any number of times
WriteAgain ==
  /\ again' = pack(node, Start("write", failAt))
  /\ node' = TreeAfter(node, again'.writes, 1)
  /\ UNCHANGED <<failAt, probe, write>>

Next == SizeProbe \/ WritePass \/ ProbeAgain \/ WriteAgain

Spec == Init /\ [][Next]_vars

TypeOK ==
  /\ probe.status \in {"none", "ok", "error", "panic"}
  /\ write.status \in {"none", "ok", "error", "panic"}
  /\ probe.out = <<>>

\* ------------------------------------------------------------------ properties

Done(r) == r.status # "none"

\* the bytes one primitive encoder call appends
CallBytes(c) ==
  CASE c.fn = "array" -> ArrayBeginBytes(c.n)
    [] c.fn = "int" -> IntegerBytes(c.n)
    [] c.fn = "raw" -> RawStringBytes(c.v.b)
    [] c.fn = "value" -> ValueBytes(c.v)

RECURSIVE CallsBytes(_, _)
\* the bytes the first k calls of cs append
CallsBytes(cs, k) ==
  IF k = 0 THEN <<>> ELSE CallsBytes(cs, k - 1) \o CallBytes(cs[k])

\* the failure-free encoding of a node on its own
Alone(n, mode) == pack(n, Start(mode, 0))

IsCall(n) == IsNone(n.exps) /\ n.cmd = Some("Call")
HasArgs(n) == IsCall(n) /\ IsSome(n.arguments)
ContextArgs(args) == {i \in 1..Len(args) : args[i].kind = "Context"}
NonEmptyContexts(args) == {i \in ContextArgs(args) : args[i].ctx # <<>>}
CountedArgs(args) == (1..Len(args)) \ ContextArgs(args)

\* C1: the count returned by the size probe equals the number of bytes the
\* write pass appends to the buffer, for every node.
SizeWriteEquality ==
  (probe.status = "ok" /\ write.status = "ok") => probe.ret = Len(write.out)

\* C2: the size probe and the write pass take the same dispatch branches,
\* make the same primitive encoder calls with the same arguments, end the
\* same way and return the same count.
ModeIndependence ==
  (Done(probe) /\ Done(write)) =>
    /\ probe.status = write.status
    /\ probe.path = write.path
    /\ probe.calls = write.calls
    /\ probe.status = "ok" => probe.ret = write.ret

ModeIndependenceWitness ==
  /\ probe.status = "ok" /\ write.status = "ok"
  /\ HasArgs(node)
  /\ NonEmptyContexts(node.arguments[1]) # {}
  /\ CountedArgs(node.arguments[1]) # {}
  /\ Len(write.out) > 0

\* the array length an operator-specific encoding opens with
CommandArrayLen(n) ==
  CASE n.cmd[1] = "Regex" -> 4
    [] n.cmd[1] = "Call" -> 5
    [] n.cmd[1] = "Bin" -> 3
    [] n.cmd[1] = "BinType" -> 2
    [] OTHER -> IF IsSome(n.val) THEN 2 ELSE 1

DispatchPriorityOf(r) ==
  Done(r) =>
    /\ IsSome(node.exps) =>
         /\ r.path[1] = "expression"
         /\ r.calls[1] = ArrayCall(Len(node.exps[1]) + 1)
         /\ (Len(r.calls) >= 2 => r.calls[2] = IntegerCall(ExpOp(node.cmd[1])))
         /\ (Len(node.exps[1]) = 0 /\ r.status = "ok" => Len(r.calls) = 2)
    /\ (IsNone(node.exps) /\ IsSome(node.cmd)) =>
         /\ r.path[1] = "command"
         /\ r.calls[1] = ArrayCall(CommandArrayLen(node))
         /\ (Len(r.calls) >= 2 => r.calls[2] = IntegerCall(ExpOp(node.cmd[1])))
    /\ (IsNone(node.exps) /\ IsNone(node.cmd)) =>
         /\ r.path[1] = "value"
         /\ (IsSome(node.val) => r.calls = <<ValueCall(node.val[1])>>)
         /\ (IsNone(node.val) => r.calls = <<>>)
    /\ (IsNone(node.exps) /\ IsNone(node.bin) /\ IsNone(node.arguments)) =>
         Len(r.path) = 1

\* C3: one encoding path per node, by priority: children present gives the
\* compound encoding whatever other fields are set; else an operation
\* gives the operator-specific encoding; else the literal goes to the
\* value encoder.
DispatchPriority == DispatchPriorityOf(probe) /\ DispatchPriorityOf(write)

DispatchPriorityWitness ==
  /\ write.status = "ok"
  /\ node.cmd = Some("Call") /\ IsSome(node.exps) /\ Len(node.exps[1]) = 2
  /\ IsSome(node.val) /\ IsSome(node.bin) /\ IsSome(node.arguments)

RECURSIVE ChildrenCalls(_, _, _)
\* the calls of the first k children, each encoded on its own, in order
ChildrenCalls(exps, k, mode) ==
  IF k = 0 THEN <<>>
  ELSE ChildrenCalls(exps, k - 1, mode) \o Alone(exps[k], mode).calls

RECURSIVE ChildrenSize(_, _, _)
ChildrenSize(exps, k, mode) ==
  IF k = 0 THEN 0 ELSE ChildrenSize(exps, k - 1, mode) + Alone(exps[k], mode).ret

ScenarioNotOr ==
  not(or(<<eq(int_bin(NameA), int_val(0)), eq(int_bin(NameA), int_val(10))>>))

CompoundEncodingOf(r) ==
  (r.status = "ok" /\ failAt = 0 /\ IsSome(node.exps)) =>
    LET exps == node.exps[1]
        k == Len(exps)
        expected == <<ArrayCall(k + 1), IntegerCall(ExpOp(node.cmd[1]))>>
                      \o ChildrenCalls(exps, k, r.mode)
    IN /\ r.calls = expected
       /\ r.ret = Len(ArrayBeginBytes(k + 1)) + Len(IntegerBytes(ExpOp(node.cmd[1])))
                    + ChildrenSize(exps, k, r.mode)
       /\ r.mode = "write" => r.out = CallsBytes(expected, Len(expected))
       /\ (node.cmd = Some("And") /\ k = 2) => r.calls[1] = ArrayCall(3)
       /\ (node.cmd = Some("Not") /\ k = 1) => r.calls[1] = ArrayCall(2)
       /\ node = ScenarioNotOr =>
            SubSeq(r.calls, 1, 4) =
              <<ArrayCall(2), IntegerCall(18), ArrayCall(3), IntegerCall(17)>>

\* C4: a node with k children encodes as an array header of length k + 1,
\* its operator code, then its children in list order, each complete
\* before the next.
CompoundEncoding == CompoundEncodingOf(probe) /\ CompoundEncodingOf(write)

CompoundEncodingWitness ==
  /\ write.status = "ok" /\ node = ScenarioNotOr
  /\ write.out[1] = 146 /\ write.out[3] = 147

RECURSIVE ArgumentCalls(_, _, _)
\* the calls of the value and expression arguments among the first k
\* arguments, in list order
ArgumentCalls(args, k, mode) ==
  IF k = 0 THEN <<>>
  ELSE ArgumentCalls(args, k - 1, mode) \o
         (CASE args[k].kind = "Value" -> <<ValueCall(args[k].val)>>
            [] args[k].kind = "FilterExpression" -> Alone(args[k].exp[1], mode).calls
            [] args[k].kind = "Context" -> <<>>)

RECURSIVE ContextCallCount(_, _)
\* the number of calls of the side-blocks of the first k arguments
ContextCallCount(args, k) ==
  IF k = 0 THEN 0
  ELSE ContextCallCount(args, k - 1) +
         (IF k \in NonEmptyContexts(args) THEN 3 + 2 * Len(args[k].ctx) ELSE 0)

CallArgumentBlockOf(r) ==
  (r.status = "ok" /\ failAt = 0 /\ HasArgs(node)) =>
    LET args == node.arguments[1]
        h == 4 + ContextCallCount(args, Len(args)) + 1
        tail == ArgumentCalls(args, Len(args), r.mode)
                  \o Alone(node.bin[1], r.mode).calls
    IN /\ r.calls[h] = ArrayCall(Cardinality(CountedArgs(args)))
       /\ SubSeq(r.calls, h + 1, Len(r.calls)) = tail

\* C5: the counted-argument header of a CALL carries the number of value
\* and expression arguments (contexts are not counted); after it come
\* those arguments in list order and, last, the reference child.
CallArgumentBlock == CallArgumentBlockOf(probe) /\ CallArgumentBlockOf(write)

CallArgumentBlockWitness ==
  /\ write.status = "ok" /\ HasArgs(node)
  /\ Len(node.arguments[1]) = 3
  /\ node.arguments[1][1].kind = "Value"
  /\ node.arguments[1][2].kind = "Context" /\ node.arguments[1][2].ctx # <<>>
  /\ node.arguments[1][3].kind = "FilterExpression"

RECURSIVE StepsBytes(_, _)
\* the id/value pairs of the first k steps of a context path, interleaved
StepsBytes(ctx, k) ==
  IF k = 0 THEN <<>>
  ELSE StepsBytes(ctx, k - 1) \o IntegerBytes(ctx[k].id) \o ValueBytes(ctx[k].value)

\* the side-block of a non-empty context path
SideBlockBytes(ctx) ==
  ArrayBeginBytes(3) \o IntegerBytes(255) \o ArrayBeginBytes(2 * Len(ctx))
    \o StepsBytes(ctx, Len(ctx))

RECURSIVE SideBlocksBytes(_, _)
\* the side-blocks of the non-empty contexts among the first k arguments,
\* in list order
SideBlocksBytes(args, k) ==
  IF k = 0 THEN <<>>
  ELSE SideBlocksBytes(args, k - 1) \o
         (IF k \in NonEmptyContexts(args) THEN SideBlockBytes(args[k].ctx) ELSE <<>>)

\* C6: in the write pass of a CALL the side-blocks of all non-empty context
\* paths, in argument-list order, come right after the module and flags
\* and before the counted-argument header, wherever the context
\* arguments stand in the list.
ContextSideBlockOrdering ==
  (write.status = "ok" /\ failAt = 0 /\ HasArgs(node)) =>
    LET args == node.arguments[1]
        head == ArrayBeginBytes(5) \o IntegerBytes(127)
                  \o IntegerBytes(ExpType(node.module[1]))
                  \o IntegerBytes(node.flags[1])
        blocks == SideBlocksBytes(args, Len(args))
        header == ArrayBeginBytes(Cardinality(CountedArgs(args)))
        upto == Len(head) + Len(blocks) + Len(header)
    IN /\ Len(write.out) >= upto
       /\ SubSeq(write.out, 1, upto) = head \o blocks \o header

ContextSideBlockOrderingWitness ==
  /\ write.status = "ok" /\ HasArgs(node)
  /\ Len(node.arguments[1]) = 3
  /\ node.arguments[1][1] = ArgContext(CtxPath(2))
  /\ node.arguments[1][2].kind = "Value"
  /\ node.arguments[1][3] = ArgContext(CtxPath(1))

\* the sequence s without its element i
RemoveAt(s, i) == SubSeq(s, 1, i - 1) \o SubSeq(s, i + 1, Len(s))

EmptyContexts(args) == ContextArgs(args) \ NonEmptyContexts(args)

ContextOmissionOf(r) ==
  (Done(r) /\ HasArgs(node)) =>
    \A i \in EmptyContexts(node.arguments[1]) :
      LET without == [node EXCEPT !.arguments = Some(RemoveAt(node.arguments[1], i))]
          other == pack(without, Start(r.mode, failAt))
      IN /\ r.status = other.status
         /\ r.calls = other.calls
         /\ r.out = other.out
         /\ r.status = "ok" => r.ret = other.ret

\* C7: an empty context path among the arguments of a CALL adds no call,
\* no byte and no size and is not counted: the encoding is that of the
\* same CALL without the argument.
ContextOmission == ContextOmissionOf(probe) /\ ContextOmissionOf(write)

ContextOmissionWitness ==
  /\ write.status = "ok" /\ probe.status = "ok" /\ HasArgs(node)
  /\ Len(node.arguments[1]) = 3
  /\ node.arguments[1][1].kind = "Value"
  /\ node.arguments[1][2] = ArgContext(<<>>)
  /\ node.arguments[1][3] = ArgContext(CtxPath(1))

ListLiterals == {<<>>, <<IntV(1)>>, <<IntV(1), StrV(NameA)>>}

\* the nodes the scalar and map literal constructors build
PlainLiterals ==
  {int_val(3), int_val(200), bool_val(1), string_val(NameA),
   float_val(FloatOnePointFive), blob_val(<<1, 2, 3>>), geo_val(NameA), nil,
   map_val(<<IntV(1), StrV(NameA)>>), map_val(<<>>)}

LiteralListQuotingOf(r) ==
  /\ \A l \in ListLiterals :
       node = list_val(l) =>
         /\ node.cmd = Some("Quoted")
         /\ r.status = "ok" =>
              /\ r.calls = <<ArrayCall(2), IntegerCall(126), ValueCall(ListV(l))>>
              /\ r.mode = "write" => r.out = <<146, 126>> \o ValueBytes(ListV(l))
  /\ node \in PlainLiterals =>
       /\ IsNone(node.cmd)
       /\ r.status = "ok" =>
            /\ r.calls = <<ValueCall(node.val[1])>>
            /\ r.mode = "write" => r.out = ValueBytes(node.val[1])

\* C8: a list literal built by list_val is a QUOTED node and encodes as
\* an array of 2 holding 126 and the list through the value encoder; a
\* scalar or map literal has no operation and is one value encoder call
\* with no array header.
LiteralListQuoting == LiteralListQuotingOf(probe) /\ LiteralListQuotingOf(write)

LiteralListQuotingWitness ==
  /\ node = list_val(<<IntV(1)>>)
  /\ write.status = "ok" /\ write.out = <<146, 126, 145, 1>>

\* a node without a field that the encoding chosen for it reads
Malformed(n) ==
  /\ IsNone(n.exps)
  /\ \/ IsNone(n.cmd) /\ IsNone(n.val)
     \/ n.cmd \in {Some("Regex"), Some("Call")} /\ IsNone(n.bin)
     \/ n.cmd \in {Some("Regex"), Some("Bin"), Some("BinType")} /\ IsNone(n.val)
     \/ n.cmd = Some("Call") /\ (IsNone(n.module) \/ IsNone(n.flags))

\* C9: encoding a node that lacks a field its encoding requires never
\* returns a count, in either mode.
MalformedNodeFailure ==
  Malformed(node) =>
    /\ Done(probe) => probe.status # "ok"
    /\ Done(write) => write.status # "ok"

MalformedNodeFailureWitness ==
  /\ IsCall(node) /\ IsNone(node.bin) /\ IsSome(node.module) /\ IsSome(node.flags)
  /\ IsSome(node.arguments) /\ failAt = 0
  /\ write.status = "panic" /\ probe.status = "panic"
  /\ Len(write.out) > 0

FailurePropagationOf(r) ==
  (Done(r) /\ failAt >= 1) =>
    LET free == Alone(node, r.mode)
    IN failAt <= Len(free.calls) =>
         /\ r.status = "error"
         /\ r.calls = SubSeq(free.calls, 1, failAt)
         /\ r.mode = "write" => r.out = CallsBytes(free.calls, failAt - 1)

\* C10: when a primitive encoder call fails, the top-level pack returns
\* the failure, the failing call is the last call made and nothing is
\* written after the bytes of the calls before it.
FailurePropagation == FailurePropagationOf(probe) /\ FailurePropagationOf(write)

FailurePropagationWitness ==
  /\ write.status = "error"
  /\ node.cmd = Some("And") /\ IsSome(node.exps) /\ Len(node.exps[1]) = 2
  /\ HasArgs(node.exps[1][2])
  /\ NonEmptyContexts(node.exps[1][2].arguments[1]) # {}
  /\ failAt = 9

\* the outcomes of two passes agree: wholly when the modes are the same,
\* in how they end and in the returned count when the modes differ
SameOutcome(a, b) ==
  /\ a.status = b.status
  /\ a.calls = b.calls
  /\ a.status = "ok" => a.ret = b.ret
  /\ a.mode = b.mode => a.out = b.out

\* the latest further pass agrees with the first probe and the first write
\* pass, which ran on the tree as the passes before them left it
AgainAgrees ==
  Done(again) =>
    /\ Done(probe) => SameOutcome(again, probe)
    /\ Done(write) => SameOutcome(again, write)

ShapeLen(op, hasLiteral) ==
  IF op = "Regex" THEN 4
  ELSE IF op = "Call" THEN 5
  ELSE IF op = "Bin" THEN 3
  ELSE IF op = "BinType" THEN 2
  ELSE IF hasLiteral THEN 2 ELSE 1

OperatorShapeOf(r) ==
  /\ (Done(r) /\ IsNone(node.exps) /\ IsSome(node.cmd)) =>
       LET op == node.cmd[1]
           k == ShapeLen(op, IsSome(node.val))
       IN /\ Len(r.calls) >= 1
          /\ r.calls[1] = ArrayCall(k)
          /\ failAt # 1 => (Len(r.calls) >= 2 /\ r.calls[2] = IntegerCall(ExpOp(op)))
          /\ (r.mode = "write" /\ failAt \notin {1, 2}) =>
               (Len(r.out) >= 2 /\ SubSeq(r.out, 1, 2) = <<144 + k, ExpOp(op)>>)
  /\ (r.mode = "write" /\ r.status = "ok" /\ node = digest_modulo(3)) =>
       r.out = <<146, 64, 3>>
  /\ (r.mode = "write" /\ r.status = "ok" /\ node = key_exists) =>
       r.out = <<145, 71>>

\* C12: a node with an operation and no children opens with an array
\* header whose length is set by the operator and the presence of a
\* literal alone (REGEX 4, CALL 5, BIN 3, BIN_TYPE 2, others 2 or 1),
\* followed by the operator's code.
OperatorShape == OperatorShapeOf(probe) /\ OperatorShapeOf(write)

OperatorShapeWitness ==
  /\ node = key_exists
  /\ write.status = "ok" /\ write.out = <<145, 71>>
  /\ probe.status = "ok" /\ probe.ret = 2

RawOps == {"Regex", "Bin", "BinType"}

\* no call of cs among the first k is made to the encoder fn
NoCallTo(cs, k, fn) == \A i \in 1..k : cs[i].fn # fn

RawStringPathOf(r) ==
  (Done(r) /\ IsNone(node.exps)) =>
    /\ (node.cmd = Some("Bin") /\ r.status = "ok") =>
         /\ r.calls = <<ArrayCall(3), IntegerCall(81),
                        IntegerCall(ExpType(node.module[1])),
                        RawStringCall(to_string(node.val[1]))>>
         /\ r.mode = "write" =>
              SubSeq(r.out, 4, Len(r.out)) = RawStringBytes(to_string(node.val[1]))
    /\ (node.cmd = Some("BinType") /\ r.status = "ok") =>
         r.calls = <<ArrayCall(2), IntegerCall(82),
                     RawStringCall(to_string(node.val[1]))>>
    /\ (node.cmd = Some("Regex") /\ r.status = "ok" /\ failAt = 0) =>
         r.calls = <<ArrayCall(4), IntegerCall(7), IntegerCall(node.flags[1]),
                     RawStringCall(to_string(node.val[1]))>>
                     \o Alone(node.bin[1], r.mode).calls
    /\ node.cmd \in {Some("Bin"), Some("BinType")} =>
         NoCallTo(r.calls, Len(r.calls), "value")
    /\ (node.cmd = Some("Regex") /\ Len(r.calls) >= 4) =>
         /\ r.calls[4].fn = "raw"
         /\ NoCallTo(r.calls, 4, "value")
    /\ (IsSome(node.cmd) /\ node.cmd[1] \notin RawOps \cup {"Call"}) =>
         /\ NoCallTo(r.calls, Len(r.calls), "raw")
         /\ (IsSome(node.val) /\ r.status = "ok") =>
              r.calls = <<ArrayCall(2), IntegerCall(ExpOp(node.cmd[1])),
                          ValueCall(node.val[1])>>
    /\ (IsCall(node) /\ IsNone(node.arguments) /\ Len(r.calls) >= 5) =>
         /\ r.calls[5] = ValueCall(node.val[1])
         /\ NoCallTo(r.calls, 5, "raw")
    /\ (HasArgs(node) /\ r.status = "ok" /\ failAt = 0) =>
         NoCallTo(r.calls,
                  5 + ContextCallCount(node.arguments[1], Len(node.arguments[1])),
                  "raw")
    /\ IsNone(node.cmd) =>
         /\ NoCallTo(r.calls, Len(r.calls), "raw")
         /\ r.status = "ok" => r.calls = <<ValueCall(node.val[1])>>

\* C13: the name of a BIN or BIN_TYPE node and the pattern of a REGEX
\* node are packed by the raw-string encoder and never by the value
\* encoder; the literal of any other operator and a bare literal are
\* packed by the value encoder and never by the raw-string encoder;
\* REGEX packs opcode, flags, raw pattern, reference child and BIN packs
\* opcode, type, raw name.
RawStringPath == RawStringPathOf(probe) /\ RawStringPathOf(write)

RawStringPathWitness ==
  /\ node = regex_compare(NameA, 2, string_bin(NameB))
  /\ write.status = "ok"
  /\ write.out = <<148, 7, 2, 161, 97, 147, 81, 3, 161, 98>>

RECURSIVE SideBlockTotal(_)
RECURSIVE SideBlockTotalOfExps(_, _)
RECURSIVE SideBlockTotalOfArgs(_, _)

\* the side-block bytes of the nodes among the first k of exps
SideBlockTotalOfExps(exps, k) ==
  IF k = 0 THEN 0
  ELSE SideBlockTotalOfExps(exps, k - 1) + SideBlockTotal(exps[k])

\* the side-block bytes of the first k arguments of a CALL: those of its
\* own non-empty contexts and those inside its expression arguments
SideBlockTotalOfArgs(args, k) ==
  IF k = 0 THEN 0
  ELSE SideBlockTotalOfArgs(args, k - 1) +
         (CASE args[k].kind = "Context" ->
                 IF args[k].ctx # <<>> THEN Len(SideBlockBytes(args[k].ctx)) ELSE 0
            [] args[k].kind = "FilterExpression" -> SideBlockTotal(args[k].exp[1])
            [] args[k].kind = "Value" -> 0)

\* the bytes of all non-empty context side-blocks of the CALL nodes that
\* the encoding of n goes through
SideBlockTotal(n) ==
  IF IsSome(n.exps) THEN SideBlockTotalOfExps(n.exps[1], Len(n.exps[1]))
  ELSE IF n.cmd = Some("Regex")
    THEN IF IsSome(n.bin) THEN SideBlockTotal(n.bin[1]) ELSE 0
  ELSE IF n.cmd = Some("Call")
    THEN (IF IsSome(n.arguments)
            THEN SideBlockTotalOfArgs(n.arguments[1], Len(n.arguments[1]))
          ELSE 0)
         + (IF IsSome(n.bin) THEN SideBlockTotal(n.bin[1]) ELSE 0)
  ELSE 0

RECURSIVE HasNonEmptyContext(_)
\* some CALL node that the encoding of n goes through has a non-empty
\* context path among its arguments
HasNonEmptyContext(n) ==
  IF IsSome(n.exps)
    THEN \E i \in 1..Len(n.exps[1]) : HasNonEmptyContext(n.exps[1][i])
  ELSE IF n.cmd = Some("Regex")
    THEN IsSome(n.bin) /\ HasNonEmptyContext(n.bin[1])
  ELSE IF n.cmd = Some("Call")
    THEN \/ IsSome(n.bin) /\ HasNonEmptyContext(n.bin[1])
         \/ /\ IsSome(n.arguments)
            /\ \E i \in 1..Len(n.arguments[1]) :
                 LET a == n.arguments[1][i]
                 IN \/ a.kind = "Context" /\ a.ctx # <<>>
                    \/ a.kind = "FilterExpression" /\ HasNonEmptyContext(a.exp[1])
  ELSE FALSE

\* C14: the count pack returns, in either mode, is the number of bytes
\* the write pass appends less the bytes of all non-empty context
\* side-blocks; the two are equal exactly when no CALL node of the tree
\* has a non-empty context path.
ContextBytesUncounted ==
  write.status = "ok" =>
    /\ write.ret = Len(write.out) - SideBlockTotal(node)
    /\ probe.status = "ok" => probe.ret = Len(write.out) - SideBlockTotal(node)
    /\ (write.ret = Len(write.out)) <=> ~HasNonEmptyContext(node)

ContextBytesUncountedWitness ==
  /\ write.status = "ok" /\ probe.status = "ok"
  /\ node = CallGetByIndex(CtxPath(1))
  /\ Len(write.out) = 17 /\ write.ret = 11 /\ probe.ret = 11

RECURSIVE WellFormed(_)
\* every field that the encoding of n reads is present, in n and in the
\* nodes its encoding goes through
WellFormed(n) ==
  IF IsSome(n.exps)
    THEN IsSome(n.cmd) /\ \A i \in 1..Len(n.exps[1]) : WellFormed(n.exps[1][i])
  ELSE IF n.cmd = Some("Regex")
    THEN IsSome(n.flags) /\ IsSome(n.val) /\ IsSome(n.bin) /\ WellFormed(n.bin[1])
  ELSE IF n.cmd = Some("Call")
    THEN /\ IsSome(n.module) /\ IsSome(n.flags)
         /\ IsSome(n.bin) /\ WellFormed(n.bin[1])
         /\ IF IsSome(n.arguments)
              THEN \A i \in 1..Len(n.arguments[1]) :
                     n.arguments[1][i].kind = "FilterExpression" =>
                       WellFormed(n.arguments[1][i].exp[1])
            ELSE IsSome(n.val)
  ELSE IF n.cmd = Some("Bin") THEN IsSome(n.module) /\ IsSome(n.val)
  ELSE IF n.cmd = Some("BinType") THEN IsSome(n.val)
  ELSE IF IsSome(n.cmd) THEN TRUE
  ELSE IsSome(n.val)

\* the index after n bytes from i, or 0 when b is too short
After(b, i, n) == IF i + n - 1 <= Len(b) THEN i + n ELSE 0

RECURSIVE EndOfElement(_, _)
RECURSIVE EndOfElements(_, _, _)

\* the index after k complete elements of b from index i, or 0 when b
\* does not hold them
EndOfElements(b, i, k) ==
  IF k = 0 THEN i
  ELSE LET e == EndOfElement(b, i)
       IN IF e = 0 THEN 0 ELSE EndOfElements(b, e, k - 1)

\* the index after the complete element of b that starts at index i, or
\* 0 when there is none: a reader of the wire format
EndOfElement(b, i) ==
  IF i < 1 \/ i > Len(b) THEN 0
  ELSE LET t == b[i]
       IN IF t < 128 THEN i + 1
          ELSE IF t < 144 THEN EndOfElements(b, i + 1, 2 * (t - 128))
          ELSE IF t < 160 THEN EndOfElements(b, i + 1, t - 144)
          ELSE IF t < 192 THEN After(b, i, 1 + (t - 160))
          ELSE IF t \in {192, 194, 195} THEN i + 1
          ELSE IF t = 203 THEN After(b, i, 9)
          ELSE IF t \in {204, 208} THEN After(b, i, 2)
          ELSE IF t = 205 THEN After(b, i, 3)
          ELSE IF t >= 224 THEN i + 1
          ELSE 0

RECURSIVE EndOfChain(_, _, _)
\* the index of the element that ends a chain of `links` context blocks
\* [0xff, context array, next element] starting at index p, or 0
EndOfChain(b, p, links) ==
  IF links = 0 THEN p
  ELSE IF p >= 1 /\ p + 2 <= Len(b) /\ SubSeq(b, p, p + 2) = <<147, 204, 255>>
    THEN EndOfChain(b, EndOfElement(b, p + 3), links - 1)
  ELSE 0

\* C15: the bytes written for a well-formed tree are exactly one complete
\* element, every array holding as many complete elements as its header
\* declares; a CALL is an array of 5: opcode, module, flags, one argument
\* element and the bin, the argument element being the chain of context
\* blocks [0xff, context array, next] that ends in the counted-argument
\* array.
StructuralWellFormedness ==
  (Done(write) /\ failAt = 0 /\ WellFormed(node)) =>
    /\ write.status = "ok"
    /\ EndOfElement(write.out, 1) = Len(write.out) + 1
    /\ HasArgs(node) =>
         LET b == write.out
             args == node.arguments[1]
             arg == EndOfElements(b, 2, 3)
             bin == EndOfElement(b, arg)
             last == EndOfChain(b, arg, Cardinality(NonEmptyContexts(args)))
         IN /\ b[1] = 149 /\ b[2] = 127
            /\ arg # 0 /\ bin # 0 /\ last # 0
            /\ b[last] = 144 + Cardinality(CountedArgs(args))
            /\ EndOfElement(b, last) = bin
            /\ EndOfElement(b, bin) = Len(b) + 1
            /\ Alone(node.bin[1], "write").out = SubSeq(b, bin, Len(b))

StructuralWellFormednessWitness ==
  /\ write.status = "ok" /\ HasArgs(node) /\ WellFormed(node)
  /\ Len(node.arguments[1]) = 3
  /\ node.arguments[1][1] = ArgContext(CtxPath(1))
  /\ node.arguments[1][2].kind = "FilterExpression"
  /\ node.arguments[1][3] = ArgContext(CtxPath(2))
  /\ EndOfElement(write.out, 1) = Len(write.out) + 1

====
